---- MODULE Spec2Model ----
(***************************************************************************)
(* A model of the TagCloudCanvas React component                           *)
(* (src/src/TagCloudCanvas.tsx): the image-loading effect, the animation   *)
(* effect with its frame callback and pointer handler, and the sphere      *)
(* layout / projection arithmetic.                                         *)
(*                                                                         *)
(* Numbers.  The component computes in IEEE doubles.  The model computes   *)
(* in fixed point with three decimals: a real r is the integer 1000*r     *)
(* ("milli").  Angles are milli-radians, unit-sphere coordinates, scale    *)
(* and opacity are milli, pixel lengths are milli-pixels, except the       *)
(* surface width/height and the requested tag size, which are whole        *)
(* pixels as in the props.  The two non-finite doubles the code can        *)
(* produce (a division by zero) are kept as values of their own: a number  *)
(* is a record [k |-> "fin" | "inf" | "nan", v |-> Int] (v is the sign     *)
(* for "inf").                                                             *)
(***************************************************************************)
EXTENDS Integers, Sequences, FiniteSets, TLC

\* ------------------------------------------------------------ fixed point

Milli == 10 * 10 * 10

\* F(e), with e evaluated once
Let(e, F(_)) == CHOOSE r \in {F(v) : v \in {e}} : TRUE

Abs(a) == IF a < 0 THEN -a ELSE a

Sign(a) == IF a < 0 THEN -1 ELSE IF a > 0 THEN 1 ELSE 0

Min(a, b) == IF a <= b THEN a ELSE b

Max(a, b) == IF a >= b THEN a ELSE b

\* n / d rounded to the nearest integer (halves away from zero), d # 0.
RDiv(n, d) ==
    LET q == (2 * Abs(n) + Abs(d)) \div (2 * Abs(d))
    IN  IF Sign(n) * Sign(d) < 0 THEN -q ELSE q

\* The product of two milli numbers, as a milli number.  The split keeps
\* every intermediate product inside TLC's 32-bit integers.
MulM(a, b) ==
    LET s  == Sign(a) * Sign(b)
        x  == Abs(a)
        y  == Abs(b)
        hi == (x \div Milli) * y
        lo == RDiv((x % Milli) * y, Milli)
    IN  s * (hi + lo)

\* ------------------------------------------------------------ Math.sin/cos

\* Math.PI
Pi == 3142

HalfPi == (Pi + 1) \div 2

TwoPi == 2 * Pi - 1

\* a reduced to (-Pi, Pi]
Reduce(a) ==
    LET r == a % TwoPi
    IN  IF r > Pi THEN r - TwoPi ELSE r

\* r folded into [-HalfPi, HalfPi] by sin(Pi - r) = sin(r)
Fold(r) ==
    IF r > HalfPi THEN Pi - r ELSE IF r < -HalfPi THEN -Pi - r ELSE r

\* Taylor polynomial of sin on [-HalfPi, HalfPi], r2 = r * r
SinHorner(r, r2) ==
    MulM(r, Milli - MulM(RDiv(r2, 6),
            Milli - MulM(RDiv(r2, 20),
            Milli - MulM(RDiv(r2, 42),
            Milli - RDiv(r2, 72)))))

\* Taylor polynomial of cos on [-HalfPi, HalfPi], r2 = r * r
CosHorner(r2) ==
    Milli - MulM(RDiv(r2, 2),
    Milli - MulM(RDiv(r2, 12),
    Milli - MulM(RDiv(r2, 30),
    Milli - RDiv(r2, 56))))

SinPoly(r) == SinHorner(r, MulM(r, r))

CosPoly(r) == CosHorner(MulM(r, r))

Clip(v) == Max(-Milli, Min(Milli, v))

\* Math.sin
Sin(a) == Clip(SinPoly(Fold(Reduce(a))))

\* Math.cos: cos(Pi - r) = -cos(r)
Cos(a) ==
    (IF Abs(Reduce(a)) > HalfPi THEN -1 ELSE 1) * Clip(CosPoly(Fold(Reduce(a))))

RECURSIVE AcosBisect(_, _, _)
\* Cos(lo) > u >= Cos(hi): the angle in [0, Pi] whose cosine is u
AcosBisect(u, lo, hi) ==
    IF hi - lo <= 1 THEN hi
    ELSE LET mid == (lo + hi) \div 2
         IN  IF Cos(mid) > u THEN AcosBisect(u, mid, hi)
             ELSE AcosBisect(u, lo, mid)

Acos(u) ==
    IF u >= Milli THEN 0
    ELSE IF u <= -Milli THEN Pi
    ELSE AcosBisect(u, 0, Pi)

\* ------------------------------------------------------------ doubles

Fin(v) == [k |-> "fin", v |-> v]

PosInf == [k |-> "inf", v |-> 1]

NegInf == [k |-> "inf", v |-> -1]

NaN == [k |-> "nan", v |-> 0]

IsFin(a) == a.k = "fin"

\* The sign of a number that is not NaN
FSign(a) == IF a.k = "inf" THEN a.v ELSE Sign(a.v)

\* n / d for finite n, d: x/0 is an infinity and 0/0 is NaN
FDiv(n, d) ==
    IF d # 0 THEN Fin(RDiv(n * Milli, d))
    ELSE IF n > 0 THEN PosInf
    ELSE IF n < 0 THEN NegInf
    ELSE NaN

\* a * m for a number a and a finite m
FMul(a, m) ==
    IF a.k = "nan" THEN NaN
    ELSE IF a.k = "inf" THEN
        (IF m = 0 THEN NaN ELSE IF a.v * Sign(m) > 0 THEN PosInf ELSE NegInf)
    ELSE Fin(MulM(a.v, m))

\* a + m for a number a and a finite m
FAdd(a, m) == IF IsFin(a) THEN Fin(a.v + m) ELSE a

\* a <= b as the double comparison: false when either is NaN
FLe(a, b) ==
    IF a.k = "nan" \/ b.k = "nan" THEN FALSE
    ELSE IF a.k = "inf" THEN (a.v < 0 \/ (b.k = "inf" /\ b.v > 0))
    ELSE IF b.k = "inf" THEN b.v > 0
    ELSE a.v <= b.v

\* Math.min and Math.max: NaN when either argument is NaN
FMin(a, b) ==
    IF a.k = "nan" \/ b.k = "nan" THEN NaN
    ELSE IF FLe(a, b) THEN a ELSE b

FMax(a, b) ==
    IF a.k = "nan" \/ b.k = "nan" THEN NaN
    ELSE IF FLe(a, b) THEN b ELSE a

\* ------------------------------------------------------------ layout

\* Math.PI * (1 + Math.sqrt(5))
GoldenTurn == 10166

\* distributeOnSphere(index, total)
distributeOnSphere(index, total) ==
    Let(Acos(-Milli + RDiv(2 * index * Milli, total)), LAMBDA phi :
        Let(GoldenTurn * index, LAMBDA theta :
            [phi   |-> phi,
             theta |-> theta,
             x     |-> MulM(Cos(theta), Sin(phi)),
             y     |-> MulM(Sin(theta), Sin(phi)),
             z     |-> Cos(phi)]))

\* tag.size ?? 40, in pixels: a tag descriptor carries a size field or none
DefaultSize == 40

RequestedSize(tag) == IF "size" \in DOMAIN tag THEN tag.size ELSE DefaultSize

\* Math.min(tag.size ?? 40, Math.min(width, height) * 0.15), in milli-pixels
NormalizedSize(tag, width, height) ==
    Min(RequestedSize(tag) * Milli, Min(width, height) * 150)

\* The record one element of the Promise.all batch resolves to
InitializedTag(tag, index, total, width, height) ==
    Let(distributeOnSphere(index, total), LAMBDA position :
        [id    |-> tag.id,
         req   |-> RequestedSize(tag),
         img   |-> TRUE,
         phi   |-> position.phi,
         theta |-> position.theta,
         x     |-> position.x,
         y     |-> position.y,
         z     |-> position.z,
         size  |-> NormalizedSize(tag, width, height),
         speed |-> 1])

\* ------------------------------------------------------------ projection

\* const radius = Math.min(width, height) * 0.3, in milli-pixels
Radius(width, height) == Min(width, height) * 300

\* A faulty Scale: the depth term subtracted
ScaleInverted(z3, radius) ==
    FAdd(FMul(FDiv(radius, radius - MulM(z3, radius)), 400), 600)

\* scale = 0.6 + (radius / (radius + z3 * radius)) * 0.4
Scale(z3, radius) ==
    FAdd(FMul(FDiv(radius, radius + MulM(z3, radius)), 400), 600)

\* opacity = Math.max(0.4, Math.min(1, (scale - 0.6) * 2))
Opacity(scale) ==
    FMax(Fin(400), FMin(Fin(Milli), FMul(FAdd(scale, -600), 2 * Milli)))

\* size = baseSize * (0.8 + scale * 0.2), in milli-pixels
ScaledSize(baseSize, scale) == FMul(FAdd(FMul(scale, 200), 800), baseSize)

\* A faulty DrawSize: the clamp to maxSize left out
DrawSizeUnclamped(size, width, height) == size

\* drawTag: drawSize = Math.min(size, Math.min(width, height) * 0.2)
DrawSize(size, width, height) == FMin(size, Fin(Min(width, height) * 200))

\* x, y, z of animate: the tag's point on the unit sphere at this time
SpherePoint(phi, theta) ==
    [x |-> MulM(Cos(theta), Sin(phi)),
     y |-> MulM(Sin(theta), Sin(phi)),
     z |-> Cos(phi)]

\* x2, z2: the point p turned about the y axis
TurnY(p, sinRotY, cosRotY) ==
    [x2 |-> MulM(p.x, cosRotY) - MulM(p.z, sinRotY),
     z2 |-> MulM(p.x, sinRotY) + MulM(p.z, cosRotY),
     y  |-> p.y]

\* y2, z3: then turned about the x axis
TurnX(q, sinRotX, cosRotX) ==
    [x2 |-> q.x2,
     y2 |-> MulM(q.y, cosRotX) - MulM(q.z2, sinRotX),
     z3 |-> MulM(q.y, sinRotX) + MulM(q.z2, cosRotX)]

\* x2, y2, z3 of animate for one tag
Rotated(tag, rotationX, rotationY, time) ==
    Let(SpherePoint(tag.phi, tag.theta + MulM(time, 200)), LAMBDA p :
        Let(TurnY(p, Sin(rotationY), Cos(rotationY)), LAMBDA q :
            TurnX(q, Sin(rotationX), Cos(rotationX))))

\* One element of animate's positions.map(...)
Project(tag, rotationX, rotationY, time, radius) ==
    Let(Rotated(tag, rotationX, rotationY, time), LAMBDA r :
        Let(Scale(r.z3, radius), LAMBDA scale :
            [tag   |-> tag,
             x     |-> FMul(scale, MulM(r.x2, radius)),
             y     |-> FMul(scale, MulM(r.y2, radius)),
             z     |-> r.z3,
             scale |-> scale]))

RECURSIVE MapProject(_, _, _, _, _)
MapProject(tags, rotationX, rotationY, time, radius) ==
    IF tags = << >> THEN << >>
    ELSE <<Project(Head(tags), rotationX, rotationY, time, radius)>>
         \o MapProject(Tail(tags), rotationX, rotationY, time, radius)

\* A faulty Compare: the sort ascending
CompareAscending(a, b) == a.z - b.z

\* The comparator of .sort((a, b) => b.z - a.z): negative when a goes first
Compare(a, b) == b.z - a.z

\* p put into the sorted sequence s behind every element it does not precede
RECURSIVE InsertSorted(_, _)
InsertSorted(p, s) ==
    IF s = << >> THEN <<p>>
    ELSE IF Compare(p, Head(s)) < 0 THEN <<p>> \o s
    ELSE <<Head(s)>> \o InsertSorted(p, Tail(s))

\* Array.prototype.sort with the comparator: a stable sort
RECURSIVE SortByDepth(_)
SortByDepth(s) ==
    IF s = << >> THEN << >>
    ELSE InsertSorted(s[Len(s)], SortByDepth(SubSeq(s, 1, Len(s) - 1)))

\* animate's positions: map, then sort
Positions(tags, rotationX, rotationY, time, radius) ==
    SortByDepth(MapProject(tags, rotationX, rotationY, time, radius))

\* One call of drawTag from positions.forEach: what reaches ctx.drawImage
DrawCall(p, width, height) ==
    [id      |-> p.tag.id,
     img     |-> p.tag.img,
     x       |-> p.x,
     y       |-> p.y,
     z       |-> p.z,
     scale   |-> p.scale,
     opacity |-> Opacity(p.scale),
     base    |-> p.tag.size,
     req     |-> p.tag.req,
     size    |-> DrawSize(ScaledSize(p.tag.size, p.scale), width, height)]

\* positions.forEach(drawTag): a tag without an image is skipped
RECURSIVE DrawAll(_, _, _)
DrawAll(positions, width, height) ==
    IF positions = << >> THEN << >>
    ELSE (IF Head(positions).tag.img
          THEN <<DrawCall(Head(positions), width, height)>> ELSE << >>)
         \o DrawAll(Tail(positions), width, height)

\* ------------------------------------------------------------ bounds

\* Changes of the props after mounting
MaxReconfig == 1

\* Frames drawn in one behaviour
MaxFrames == 1

\* The "few frames" after which a pointer-leave is to have taken effect
FewFrames == MaxFrames

\* ------------------------------------------------------------ props

\* The tag sets a parent passes as the tags prop, by number
TagSetIds == {1, 2}

\* Tag set 1 holds two tags, tag set 2 one
TagCount(s) == 3 - s

\* One tag descriptor of the tags prop: its src (id) and an optional size
TagDescriptor(s, i) ==
    IF i = 1 THEN [id |-> <<s, i>>]
    ELSE IF i = 2 THEN [id |-> <<s, i>>, size |-> 10 * s]
    ELSE [id |-> <<s, i>>, size |-> 100]

TagList(s) == [i \in 1..TagCount(s) |-> TagDescriptor(s, i)]

TagIds(s) == {<<s, i>> : i \in 1..TagCount(s)}

\* The surface sizes a parent passes as <<width, height>>
Dimensions == {<<400, 400>>, <<200, 300>>}

\* Pointer positions over a width x height canvas, relative to its corner:
\* one pixel right of the centre, and the right edge a quarter down
PointerPoints(w, h) == {<<w \div 2 + 1, h \div 2>>, <<w, h \div 4>>}

\* requestAnimationFrame's timestamp, in milliseconds
Timestamps == {4000}

VARIABLES
    tags,             \* prop: the tag set
    width,            \* prop
    height,           \* prop
    batches,          \* one record per loadImages() call, in call order
    initializedTags,  \* state
    imagesLoaded,     \* state
    loop,             \* "on": a frame is requested and the listener attached
    rotationX,        \* the animation effect's locals
    rotationY,
    targetRotationX,
    targetRotationY,
    frameCount,       \* frames drawn so far
    frame,            \* what the last animate() call drew, and under which props
    pointerInside,    \* the pointer is over the canvas
    framesSinceLeave, \* frames drawn since the pointer left, up to FewFrames
    fnArgs,           \* function harness: the arguments
    fnResult          \* function harness: the result

vars == <<tags, width, height, batches, initializedTags, imagesLoaded, loop,
          rotationX, rotationY, targetRotationX, targetRotationY, frameCount,
          frame, pointerInside, framesSinceLeave, fnArgs, fnResult>>

propVars == <<tags, width, height>>

loadVars == <<batches, initializedTags, imagesLoaded>>

rotationVars == <<rotationX, rotationY, targetRotationX, targetRotationY>>

pointerVars == <<pointerInside, framesSinceLeave>>

fnVars == <<fnArgs, fnResult>>

NoFrame ==
    [drawn |-> FALSE, calls |-> << >>, tags |-> 0, width |-> 0, height |-> 0,
     idle |-> FALSE]

\* ------------------------------------------------------------ loadImages

\* loadImages(): one Image per tag, all loading
NewBatch(s, w, h) ==
    [tags   |-> s,
     width  |-> w,
     height |-> h,
     load   |-> [i \in 1..TagCount(s) |-> "pending"],
     state  |-> "pending"]

\* The array Promise.all resolves to: the tags in input order
LoadedTags(b) ==
    [i \in 1..TagCount(b.tags) |->
        InitializedTag(TagList(b.tags)[i], i - 1, TagCount(b.tags),
                       b.width, b.height)]

AllLoaded(load) == \A i \in DOMAIN load : load[i] = "loaded"

\* ------------------------------------------------------------ effects

\* A faulty RunAnimationEffect: the imagesLoaded guard left out
RunAnimationEffectUnguarded(loaded) ==
    /\ loop' = "on"
    /\ rotationX' = 0
    /\ rotationY' = 0
    /\ targetRotationX' = 0
    /\ targetRotationY' = 0

\* The animation effect runs (after its cleanup, if it ran before): with
\* imagesLoaded it resets its locals, attaches the listener and requests a
\* frame; without, it returns at once.
RunAnimationEffect(loaded) ==
    /\ loop' = IF loaded THEN "on" ELSE "off"
    /\ rotationX' = 0
    /\ rotationY' = 0
    /\ targetRotationX' = 0
    /\ targetRotationY' = 0

\* The parent re-renders the component with other props.  The loading
\* effect depends on [tags, width, height] and runs again; the animation
\* effect depends on [initializedTags, imagesLoaded, height, width] and runs
\* again only when the width or the height changed.
Reconfigure(s, w, h) ==
    /\ Len(batches) <= MaxReconfig
    /\ <<s, w, h>> # <<tags, width, height>>
    /\ tags' = s
    /\ width' = w
    /\ height' = h
    /\ batches' = Append(batches, NewBatch(s, w, h))
    /\ IF w # width \/ h # height
       THEN RunAnimationEffect(imagesLoaded)
       ELSE UNCHANGED <<loop, rotationVars>>
    /\ UNCHANGED <<initializedTags, imagesLoaded, frameCount, frame, pointerVars,
                   fnVars>>

\* img.onload of image i of batch g.  When it is the last of a batch none
\* of whose images failed, Promise.all resolves and loadImages goes on:
\* setInitializedTags, setImagesLoaded(true), and the re-render runs the
\* animation effect again (initializedTags is a new array).
LoadOk(g, i) ==
    /\ batches[g].load[i] = "pending"
    /\ LET load == [batches[g].load EXCEPT ![i] = "loaded"]
           done == batches[g].state = "pending" /\ AllLoaded(load)
       IN  /\ batches' = [batches EXCEPT ![g].load = load,
                             ![g].state = IF done THEN "fulfilled" ELSE @]
           /\ IF done
              THEN /\ initializedTags' = LoadedTags(batches[g])
                   /\ imagesLoaded' = TRUE
                   /\ RunAnimationEffect(TRUE)
              ELSE UNCHANGED <<initializedTags, imagesLoaded, loop,
                               rotationVars>>
    /\ UNCHANGED <<propVars, frameCount, frame, pointerVars, fnVars>>

\* img.onerror of image i of batch g: the first one rejects Promise.all,
\* and the catch logs the error and sets nothing.
LoadFail(g, i) ==
    /\ batches[g].load[i] = "pending"
    /\ batches' = [batches EXCEPT ![g].load[i] = "failed",
                      ![g].state = IF @ = "pending" THEN "rejected" ELSE @]
    /\ UNCHANGED <<propVars, initializedTags, imagesLoaded, loop, rotationVars,
                   frameCount, frame, pointerVars, fnVars>>

\* ------------------------------------------------------------ pointer

\* Math.PI * 0.5
QuarterTurn == HalfPi

\* handleMouseMove with the pointer at <<px, py>> from the canvas corner
TargetRotation(px, py, w, h) ==
    LET mouseX == RDiv((2 * px - w) * Milli, w)
        mouseY == RDiv((2 * py - h) * Milli, h)
    IN  [x |-> MulM(mouseY, QuarterTurn), y |-> MulM(mouseX, QuarterTurn)]

handleMouseMove(px, py) ==
    /\ loop = "on"
    /\ targetRotationX' = TargetRotation(px, py, width, height).x
    /\ targetRotationY' = TargetRotation(px, py, width, height).y
    /\ pointerInside' = TRUE
    /\ framesSinceLeave' = 0
    /\ UNCHANGED <<propVars, loadVars, loop, rotationX, rotationY, frameCount,
                   frame, fnVars>>

\* The pointer leaves the canvas.  The component listens to "mousemove"
\* only: no handler runs.
MouseLeave ==
    /\ pointerInside
    /\ pointerInside' = FALSE
    /\ framesSinceLeave' = 0
    /\ UNCHANGED <<propVars, loadVars, loop, rotationVars, frameCount, frame,
                   fnVars>>

\* ------------------------------------------------------------ animate

\* A faulty Interpolate: a smoothing factor of 10 for 0.1
InterpolateOvershoot(current, target) ==
    current + MulM(target - current, 10 * Milli)

\* current += (target - current) * 0.1
Interpolate(current, target) == current + MulM(target - current, 100)

\* Math.abs(targetRotationX) < 0.01 && Math.abs(targetRotationY) < 0.01
Idle(targetX, targetY) == Abs(targetX) < 10 /\ Abs(targetY) < 10

\* The two rotation angles after one frame's update
RotationStep(rotX, rotY, targetX, targetY) ==
    [x |-> Interpolate(rotX, targetX),
     y |-> Interpolate(rotY, targetY)
           + (IF Idle(targetX, targetY) THEN 5 ELSE 0)]

\* What one animate(timestamp) call draws
Frame(tagList, rot, timestamp, w, h) ==
    DrawAll(Positions(tagList, rot.x, rot.y, timestamp, Radius(w, h)), w, h)

animate(timestamp) ==
    /\ loop = "on"
    /\ frameCount < MaxFrames
    /\ \E rot \in {RotationStep(rotationX, rotationY,
                                 targetRotationX, targetRotationY)} :
           /\ rotationX' = rot.x
           /\ rotationY' = rot.y
           /\ frame' = [drawn  |-> TRUE,
                        calls  |-> Frame(initializedTags, rot, timestamp,
                                         width, height),
                        tags   |-> tags,
                        width  |-> width,
                        height |-> height,
                        idle   |-> Idle(targetRotationX, targetRotationY)]
    /\ frameCount' = frameCount + 1
    /\ framesSinceLeave' =
           IF pointerInside THEN 0 ELSE Min(FewFrames, framesSinceLeave + 1)
    /\ UNCHANGED <<propVars, loadVars, loop, targetRotationX, targetRotationY,
                   pointerInside, fnVars>>

\* ------------------------------------------------------------ specification

NoCall == [op |-> "none"]

\* The component is mounted: both effects have run once
Init ==
    /\ tags = 1
    /\ width = 400
    /\ height = 400
    /\ batches = <<NewBatch(tags, width, height)>>
    /\ initializedTags = << >>
    /\ imagesLoaded = FALSE
    /\ loop = "off"
    /\ rotationX = 0
    /\ rotationY = 0
    /\ targetRotationX = 0
    /\ targetRotationY = 0
    /\ frameCount = 0
    /\ frame = NoFrame
    /\ pointerInside = FALSE
    /\ framesSinceLeave = 0
    /\ fnArgs = NoCall
    /\ fnResult = NoCall

Next ==
    \/ \E s \in TagSetIds, d \in Dimensions : Reconfigure(s, d[1], d[2])
    \/ \E g \in 1..Len(batches) : \E i \in DOMAIN batches[g].load : LoadOk(g, i)
    \/ \E g \in 1..Len(batches) : \E i \in DOMAIN batches[g].load : LoadFail(g, i)
    \/ \E p \in PointerPoints(width, height) : handleMouseMove(p[1], p[2])
    \/ MouseLeave
    \/ \E t \in Timestamps : animate(t)

Spec == Init /\ [][Next]_vars

\* ------------------------------------------------------------ functions
(***************************************************************************)
(* The arithmetic of the component on its own: SpecFn draws the arguments  *)
(* of one call from bounded grids and applies the function to them.        *)
(***************************************************************************)

\* Tags laid out in one call
MaxN == 4

\* Rotation angles (milli-radians) a frame is projected with
RotationGrid == {-HalfPi, -785, 0, 5, 50, HalfPi}

\* Frame times (milliseconds); 27710 ms turns the sphere by 5542 milli-radians
TimeGrid == {0, 16, 4000, 27710}

\* Rotated depths z' (milli) in the supported range [-1, 1]
DepthGrid == {-Milli, -999, 999, Milli} \cup {50 * k : k \in -19..19}

\* Current and target angles of one orientation update
AngleGrid == {-HalfPi, -800, -10, -9, -4, 0, 4, 5, 9, 10, 50, 800, HalfPi}

ProjectCalls ==
    [op : {"project"}, n : 1..MaxN, dim : Dimensions,
     rotationX : RotationGrid, rotationY : RotationGrid, time : TimeGrid]

ScaleCalls ==
    [op : {"scale"}, z1 : DepthGrid, z2 : DepthGrid, dim : Dimensions]

StepCalls ==
    [op : {"step"}, rotationX : AngleGrid, rotationY : AngleGrid,
     targetX : AngleGrid, targetY : AngleGrid]

\* The n tags of a call, loaded and laid out for a w x h surface
LaidOut(n, w, h) ==
    [i \in 1..n |-> InitializedTag(TagDescriptor(1, i), i - 1, n, w, h)]

\* loadImages' layout, then one frame's map, sort and draw
ApplyProject ==
    /\ fnArgs.op = "project"
    /\ fnResult = NoCall
    /\ \E tagList \in {LaidOut(fnArgs.n, fnArgs.dim[1], fnArgs.dim[2])} :
          fnResult' =
              [op     |-> "project",
               layout |-> tagList,
               calls  |-> Frame(tagList,
                                [x |-> fnArgs.rotationX, y |-> fnArgs.rotationY],
                                fnArgs.time, fnArgs.dim[1], fnArgs.dim[2])]
    /\ UNCHANGED <<propVars, loadVars, loop, rotationVars, frameCount, frame,
                   pointerVars, fnArgs>>

\* scale and opacity at two depths
ApplyScale ==
    /\ fnArgs.op = "scale"
    /\ fnResult = NoCall
    /\ \E radius \in {Radius(fnArgs.dim[1], fnArgs.dim[2])} :
          fnResult' =
              [op       |-> "scale",
               scale1   |-> Scale(fnArgs.z1, radius),
               scale2   |-> Scale(fnArgs.z2, radius),
               opacity1 |-> Opacity(Scale(fnArgs.z1, radius)),
               opacity2 |-> Opacity(Scale(fnArgs.z2, radius))]
    /\ UNCHANGED <<propVars, loadVars, loop, rotationVars, frameCount, frame,
                   pointerVars, fnArgs>>

\* one frame's orientation update
ApplyStep ==
    /\ fnArgs.op = "step"
    /\ fnResult = NoCall
    /\ fnResult' =
          [op  |-> "step",
           rot |-> RotationStep(fnArgs.rotationX, fnArgs.rotationY,
                                fnArgs.targetX, fnArgs.targetY)]
    /\ UNCHANGED <<propVars, loadVars, loop, rotationVars, frameCount, frame,
                   pointerVars, fnArgs>>

InitFn ==
    /\ tags = 1
    /\ width = 400
    /\ height = 400
    /\ batches = <<NewBatch(tags, width, height)>>
    /\ initializedTags = << >>
    /\ imagesLoaded = FALSE
    /\ loop = "off"
    /\ rotationX = 0
    /\ rotationY = 0
    /\ targetRotationX = 0
    /\ targetRotationY = 0
    /\ frameCount = 0
    /\ frame = NoFrame
    /\ pointerInside = FALSE
    /\ framesSinceLeave = 0
    /\ fnArgs \in ProjectCalls \cup ScaleCalls \cup StepCalls
    /\ fnResult = NoCall

NextFn ==
    \/ ApplyProject
    \/ ApplyScale
    \/ ApplyStep

SpecFn == InitFn /\ [][NextFn]_vars

\* ------------------------------------------------------------ claims

SeqIds(q) == {q[i].id : i \in DOMAIN q}

Between(a, b, c) == (a <= b /\ b <= c) \/ (c <= b /\ b <= a)

LastBatch == batches[Len(batches)]

\* C1: every frame shows only tags of the tag set configured when it is
\* drawn, at sizes normalised for the width and height configured then.
C1_NoStaleFrame ==
    frame.drawn =>
        \A k \in DOMAIN frame.calls :
            /\ frame.calls[k].id \in TagIds(frame.tags)
            /\ frame.calls[k].base =
                   Min(frame.calls[k].req * Milli,
                       Min(frame.width, frame.height) * 150)

\* C2: once exactly one image of the configured tag set has failed and all
\* its others have loaded, the loop runs and shows exactly the loaded ones.
ExactlyOneFailed(b) ==
    /\ Cardinality({i \in DOMAIN b.load : b.load[i] = "failed"}) = 1
    /\ \E i \in DOMAIN b.load : b.load[i] = "loaded"
    /\ \A i \in DOMAIN b.load : b.load[i] # "pending"

C2_SingleFailureStillRenders ==
    ExactlyOneFailed(LastBatch) =>
        /\ loop = "on"
        /\ SeqIds(initializedTags) =
               {<<LastBatch.tags, i>> : i \in {j \in DOMAIN LastBatch.load :
                                                  LastBatch.load[j] = "loaded"}}

\* C3: FewFrames frames after the pointer has left, the rotation target is
\* (0, 0) again and the frame just drawn applied the idle increment.
C3_LeaveRestoresIdle ==
    (~pointerInside /\ framesSinceLeave >= FewFrames) =>
        /\ targetRotationX = 0
        /\ targetRotationY = 0
        /\ frame.idle

\* C4 as stated: every drawn tag's image has loaded, and no frame is drawn
\* while a load of the first tag set is still pending.
DrawnTagsLoaded ==
    \A k \in DOMAIN frame.calls :
        /\ frame.calls[k].img
        /\ \E g \in DOMAIN batches :
              /\ frame.calls[k].id[1] = batches[g].tags
              /\ batches[g].load[frame.calls[k].id[2]] = "loaded"

C4_FirstSetLoadedBeforeFrames ==
    frame.drawn =>
        /\ DrawnTagsLoaded
        /\ \A i \in DOMAIN batches[1].load : batches[1].load[i] # "pending"

\* C4 amended: every drawn tag's image has loaded, and a frame is drawn
\* only once every load of some batch has succeeded; the frame draws
\* exactly the tags of such a batch.
C4_DrawnFromALoadedBatch ==
    /\ loop = "on" => imagesLoaded
    /\ frame.drawn =>
          /\ DrawnTagsLoaded
          /\ \E g \in DOMAIN batches :
                /\ batches[g].state = "fulfilled"
                /\ AllLoaded(batches[g].load)
                /\ SeqIds(frame.calls) = TagIds(batches[g].tags)
                /\ Len(frame.calls) = TagCount(batches[g].tags)

\* a frame was drawn while loads of the first tag set were pending and
\* another batch had a failed load
C4_Witness ==
    /\ frame.drawn
    /\ frame.calls # << >>
    /\ \E i \in DOMAIN batches[1].load : batches[1].load[i] = "pending"
    /\ \E g \in DOMAIN batches : batches[g].state = "rejected"

\* C5 as stated: the drawn size is at most
\* min(requestedSize, min(width, height) * 0.2).
C5_DrawnSizeWithinRequest ==
    frame.drawn =>
        \A k \in DOMAIN frame.calls :
            FLe(frame.calls[k].size,
                Fin(Min(frame.calls[k].req * Milli,
                        Min(frame.width, frame.height) * 200)))

\* C5 amended: the drawn size is at most min(width, height) * 0.2 and at
\* most requestedSize * (0.8 + 0.2 * scale); the size before the depth
\* scaling is at most requestedSize.
C5_DrawnSizeClamped ==
    frame.drawn =>
        \A k \in DOMAIN frame.calls :
            /\ FLe(frame.calls[k].size,
                   Fin(Min(frame.width, frame.height) * 200))
            /\ FLe(frame.calls[k].size,
                   ScaledSize(frame.calls[k].req * Milli, frame.calls[k].scale))
            /\ frame.calls[k].base <= frame.calls[k].req * Milli

\* a tag was drawn larger than requested, and one at the surface's limit
C5_Witness ==
    /\ frame.drawn
    /\ \E k \in DOMAIN frame.calls :
          /\ IsFin(frame.calls[k].scale)
          /\ ~FLe(frame.calls[k].size, Fin(frame.calls[k].req * Milli))
    /\ \E k \in DOMAIN frame.calls :
          frame.calls[k].size = Fin(Min(frame.width, frame.height) * 200)

\* C6: the draw order is a permutation of the loaded tags, descending in
\* the depth rotated for this frame, equal depths in input order, and the
\* scale never decreases along it.
C6_SortedFarthestFirst ==
    fnResult.op = "project" =>
        /\ Len(fnResult.calls) = Len(fnResult.layout)
        /\ SeqIds(fnResult.calls) = SeqIds(fnResult.layout)
        /\ \A k \in DOMAIN fnResult.calls :
              fnResult.calls[k].z =
                  Rotated(fnResult.layout[fnResult.calls[k].id[2]],
                          fnArgs.rotationX, fnArgs.rotationY, fnArgs.time).z3
        /\ \A k \in 1..(Len(fnResult.calls) - 1) :
              /\ fnResult.calls[k].z >= fnResult.calls[k + 1].z
              /\ fnResult.calls[k].z = fnResult.calls[k + 1].z =>
                     fnResult.calls[k].id[2] < fnResult.calls[k + 1].id[2]
              /\ FLe(fnResult.calls[k].scale, fnResult.calls[k + 1].scale)

\* a frame of MaxN tags the sort reordered, two of them at equal depth
C6_Witness ==
    /\ fnResult.op = "project"
    /\ Len(fnResult.calls) >= 4
    /\ \E k \in 1..(Len(fnResult.calls) - 1) :
          fnResult.calls[k].z = fnResult.calls[k + 1].z
    /\ \E k \in 1..(Len(fnResult.calls) - 1) :
          /\ fnResult.calls[k].z > fnResult.calls[k + 1].z
          /\ fnResult.calls[k].id[2] > fnResult.calls[k + 1].id[2]

C8_ScenarioWithinBounds ==
    (/\ fnResult.op = "project"
     /\ fnArgs.n = 4 /\ fnArgs.dim = <<400, 400>>
     /\ fnArgs.rotationX = 0 /\ fnArgs.rotationY = 0 /\ fnArgs.time = 0) =>
        /\ \A i, j \in DOMAIN fnResult.layout :
              i # j =>
                  <<fnResult.layout[i].x, fnResult.layout[i].y, fnResult.layout[i].z>>
                  # <<fnResult.layout[j].x, fnResult.layout[j].y, fnResult.layout[j].z>>
        /\ \A k \in DOMAIN fnResult.calls :
              /\ FLe(Fin(-140 * Milli), fnResult.calls[k].x)
              /\ FLe(fnResult.calls[k].x, Fin(140 * Milli))
              /\ FLe(Fin(-140 * Milli), fnResult.calls[k].y)
              /\ FLe(fnResult.calls[k].y, Fin(140 * Milli))

\* C9 as stated: after one update each angle lies between its previous
\* value and its target.
C9_NeverOvershoots ==
    fnResult.op = "step" =>
        /\ Between(fnArgs.rotationX, fnResult.rot.x, fnArgs.targetX)
        /\ Between(fnArgs.rotationY, fnResult.rot.y, fnArgs.targetY)

\* C9 amended: the X angle always, and the Y angle unless both targets are
\* below the idle threshold, lies between its previous value and its
\* target, and is nearer the target than before whenever it was 0.005 or
\* more away; with both targets below the threshold the Y angle lies 0.005
\* beyond that point.
C9_NoOvershootWhileTracking ==
    fnResult.op = "step" =>
        /\ Between(fnArgs.rotationX, fnResult.rot.x, fnArgs.targetX)
        /\ Abs(fnArgs.targetX - fnArgs.rotationX) >= 5 =>
               Abs(fnArgs.targetX - fnResult.rot.x)
                   < Abs(fnArgs.targetX - fnArgs.rotationX)
        /\ ~Idle(fnArgs.targetX, fnArgs.targetY) =>
               /\ Between(fnArgs.rotationY, fnResult.rot.y, fnArgs.targetY)
               /\ Abs(fnArgs.targetY - fnArgs.rotationY) >= 5 =>
                      Abs(fnArgs.targetY - fnResult.rot.y)
                          < Abs(fnArgs.targetY - fnArgs.rotationY)
        /\ Idle(fnArgs.targetX, fnArgs.targetY) =>
               Between(fnArgs.rotationY, fnResult.rot.y - 5, fnArgs.targetY)

\* an update that moved both angles part of the way to far targets
C9_Witness ==
    /\ fnResult.op = "step"
    /\ ~Idle(fnArgs.targetX, fnArgs.targetY)
    /\ fnResult.rot.x # fnArgs.rotationX /\ fnResult.rot.x # fnArgs.targetX
    /\ fnResult.rot.y # fnArgs.rotationY /\ fnResult.rot.y # fnArgs.targetY

\* C10: once every load of every batch has succeeded, the displayed tags
\* are those built from the batch started last.
C10_NewestBatchWins ==
    (Len(batches) >= 2 /\ \A g \in DOMAIN batches : AllLoaded(batches[g].load)) =>
        initializedTags = LoadedTags(LastBatch)

====
